---- MODULE Spec2Model ----
(***************************************************************************)
(* go-gitlab-irc: a webhook-to-IRC bridge.  The HTTP handler returned by   *)
(* CreateFunctionNotifyFunction decodes a GitLab webhook, renders one or   *)
(* more lines and hands each line to sendMessage, which resolves the       *)
(* project's channels in the routing table and calls bot.Privmsg for each. *)
(*                                                                         *)
(* Go strings that the code slices, splits or concatenates are sequences   *)
(* of one-character strings; a Go index i is the TLA+ index i + 1.         *)
(* Keywords that are only compared or looked up are TLA+ strings.          *)
(***************************************************************************)
EXTENDS Integers, Sequences, FiniteSets, TLC

VARIABLES
    channelMapping,  \* the Mapping read from the yaml file by main()
    alive,           \* FALSE once log.Fatal has ended the process
    req,             \* req[r]: the HTTP request handler r is serving
    pc,              \* pc[r]: where handler r stands in the handler's code
    ev,              \* ev[r]: the decoded event record (pushEvent, ...)
    idx,             \* idx[r]: position of the commit loop
    message,         \* message[r]: the argument of the running sendMessage
    channelNames,    \* channelNames[r]: targets sendMessage has still to serve
    ret,             \* ret[r]: where the handler goes on after sendMessage
    sink,            \* every bot.Privmsg call made so far, in call order
    joined           \* the irccon.Join calls of each run of the 001 callback

vars ==
    <<channelMapping, alive, req, pc, ev, idx, message, channelNames, ret, sink, joined>>

(***************************************************************************)
(* Bounds of the model.                                                    *)
(***************************************************************************)
MaxCommits == 4      \* longest "commits" array of a push payload
MaxTotal == 4        \* largest total_commits_count of a push payload
MaxChannels == 2     \* longest channel list of a routing-table entry
MaxWelcomes == 1     \* most 001 replies (connection set-ups) of a run

(***************************************************************************)
(* Program constants.                                                      *)
(***************************************************************************)
NullLen == 40        \* length of the all-zero hash
HashWidth == 7       \* commit ids are cut to [0:7]
CommitLimit == 3     \* at most 3 commit lines per push

NullCommit == [k \in 1..NullLen |-> "0"]

(***************************************************************************)
(* String helpers.                                                         *)
(***************************************************************************)
\* strings.Split(s, sep) for a one-character separator
RECURSIVE Split(_, _)
Split(s, sep) ==
    IF \E k \in 1..Len(s) : s[k] = sep
    THEN LET k == CHOOSE n \in 1..Len(s) :
                      s[n] = sep /\ \A j \in 1..(n - 1) : s[j] # sep
         IN  <<SubSeq(s, 1, k - 1)>> \o Split(SubSeq(s, k + 1, Len(s)), sep)
    ELSE <<s>>

\* the slice expression s[0:n] panics when n exceeds the length
CanSlice(s, n) == n <= Len(s)
Slice(s, n) == SubSeq(s, 1, n)

\* a Go map read: the zero value "" for a missing key
MapGet(m, k) == IF k \in DOMAIN m THEN m[k] ELSE ""

(***************************************************************************)
(* The routing table and sendMessage.                                      *)
(***************************************************************************)
\* a Go map read of a []string value: nil (no element) for a missing key
Lookup(mapping, key) == IF key \in DOMAIN mapping THEN mapping[key] ELSE <<>>

\* a comparison that folds case (strings.EqualFold instead of ==)
Lower(c) == CASE c = "G" -> "g" [] c = "P" -> "p" [] OTHER -> c
Fold(str) == [k \in 1..Len(str) |-> Lower(str[k])]
containsFold(mapping, entry) == \E k \in DOMAIN mapping : Fold(k) = Fold(entry)

contains(mapping, entry) == \E k \in DOMAIN mapping : k = entry

full_projectName(projectName, namespace) == namespace \o <<"/">> \o projectName

\* the two lookups in the other order: the group entry shadows the explicit one
resolveGroupFirst(m, projectName, namespace) ==
    IF contains(m.GroupMappings, namespace)
    THEN Lookup(m.GroupMappings, namespace)
    ELSE IF contains(m.ExplicitMappings, full_projectName(projectName, namespace))
         THEN Lookup(m.ExplicitMappings, full_projectName(projectName, namespace))
         ELSE <<m.DefaultChannel>>

\* the default channel appended after the group branch as well
resolveGroupAndDefault(m, projectName, namespace) ==
    IF contains(m.ExplicitMappings, full_projectName(projectName, namespace))
    THEN Lookup(m.ExplicitMappings, full_projectName(projectName, namespace))
    ELSE IF contains(m.GroupMappings, namespace)
         THEN Lookup(m.GroupMappings, namespace) \o <<m.DefaultChannel>>
         ELSE <<m.DefaultChannel>>

\* the channelNames slice sendMessage builds before its Privmsg loop
resolve(m, projectName, namespace) ==
    IF contains(m.ExplicitMappings, full_projectName(projectName, namespace))
    THEN Lookup(m.ExplicitMappings, full_projectName(projectName, namespace))
    ELSE IF contains(m.GroupMappings, namespace)
         THEN Lookup(m.GroupMappings, namespace)
         ELSE <<m.DefaultChannel>>

(***************************************************************************)
(* getAllChannelNames.                                                     *)
(***************************************************************************)
\* the orders in which a range over a Go map can visit the keys S
RECURSIVE Orders(_)
Orders(S) ==
    IF S = {} THEN {<<>>}
    ELSE UNION {{<<k>> \o t : t \in Orders(S \ {k})} : k \in S}

\* the inner loops: the lists under the keys, appended in the order visited
RECURSIVE AppendLists(_, _)
AppendLists(mapping, keys) ==
    IF keys = <<>> THEN <<>>
    ELSE mapping[Head(keys)] \o AppendLists(mapping, Tail(keys))

\* the loop over the explicit mappings left out
getAllChannelNamesNoExplicit(m) ==
    { <<m.DefaultChannel>> \o AppendLists(m.GroupMappings, g) :
          g \in Orders(DOMAIN m.GroupMappings) }

\* the slices getAllChannelNames can return, one for each order of the keys
getAllChannelNames(m) ==
    { <<m.DefaultChannel>> \o AppendLists(m.GroupMappings, g)
                          \o AppendLists(m.ExplicitMappings, e) :
          g \in Orders(DOMAIN m.GroupMappings),
          e \in Orders(DOMAIN m.ExplicitMappings) }

(***************************************************************************)
(* Strings of the payloads.                                                *)
(***************************************************************************)
RefMain == <<"r","e","f","s","/","h","e","a","d","s","/","m","a","i","n">>
RefFeature ==
    <<"r","e","f","s","/","h","e","a","d","s","/","f","e","a","t","u","r","e","/","x">>
RefBare == <<"m","a","i","n">>

HashA == [k \in 1..NullLen |-> IF k = 1 THEN "a" ELSE "1"]
HashB == [k \in 1..NullLen |-> IF k = 1 THEN "b" ELSE "2"]
HashC == [k \in 1..NullLen |-> IF k = 1 THEN "c" ELSE "3"]
ShortHash == <<"a","b","c">>

UrlScp == <<"g","i","t","@","h",":","g","/","p",".","g","i","t">>
UrlNoColon == <<"h","/","g","/","p">>

TheProject == [Name |-> <<"p">>, Namespace |-> <<"g">>]

\* the maps built once by CreateFunctionNotifyFunction
JobStatus ==
    [k \in {"pending", "created", "running", "failed", "success"} |->
        CASE k = "pending" -> "is pending"
          [] k = "created" -> "was created"
          [] k = "running" -> "is running"
          [] k = "failed"  -> "has failed"
          [] k = "success" -> "has succeded"]

HookActions ==
    [k \in {"open", "update", "close", "reopen", "merge"} |->
        CASE k = "open"   -> "opened"
          [] k = "update" -> "updated"
          [] k = "close"  -> "closed"
          [] k = "reopen" -> "reopened"
          [] k = "merge"  -> "merged"]

(***************************************************************************)
(* The inputs: routing tables and webhook requests.                        *)
(***************************************************************************)
Channels == {"#a", "#b"}

\* the channel lists a yaml document can give one key (the empty list too)
ChannelLists == UNION {[1..n -> Channels] : n \in 0..MaxChannels}

\* the tables of the handler runs: one routes g/p to the default channel,
\* one to a group's two channels, one to an explicit entry with no channel
ServerMappings ==
    { [DefaultChannel |-> "#d", GroupMappings |-> <<>>, ExplicitMappings |-> <<>>],
      [DefaultChannel |-> "#d",
       GroupMappings |-> (<<"g">> :> <<"#a", "#b">>),
       ExplicitMappings |-> <<>>],
      [DefaultChannel |-> "#d",
       GroupMappings |-> (<<"g">> :> <<"#a", "#b">>),
       ExplicitMappings |-> (<<"g", "/", "p">> :> <<>>)] }

\* commit k of a payload carries k as its message
CommitsOf(ids) == [k \in 1..Len(ids) |-> [Id |-> ids[k], Message |-> k]]

CommitLists ==
    {CommitsOf(ids) : ids \in UNION {[1..n -> {HashC, ShortHash}] : n \in 0..MaxCommits}}

PushLabels == {"Push Hook", "Push Event"}
IssueLabels == {"Issue Hook", "Issue Event"}
MergeLabels == {"Merge Request Hook", "Merge Request Event"}

PushBodies ==
    [ BeforeCommit : {NullCommit, HashA, ShortHash},
      AfterCommit  : {NullCommit, HashB, ShortHash},
      Project      : {TheProject},
      Commits      : CommitLists,
      TotalCommits : 0..MaxTotal,
      Branch       : {RefMain, RefFeature, RefBare} ]

IssueBodies ==
    [ Project : {TheProject},
      Action  : {"open", "update", "close", "reopen", "merge", "approved"} ]

PipelineBodies ==
    [ Project  : {TheProject},
      Commit   : {HashC, ShortHash},
      Status   : {"pending", "created", "running", "success", "failed", "canceled"},
      Duration : {12} ]

JobBodies ==
    [ Name       : {"build"},
      Status     : {"created", "running", "success", "failed"},
      Duration   : {12},
      Commit     : {HashC, ShortHash},
      Repository : [Name : {<<"p">>}, URL : {UrlScp, UrlNoColon}] ]

\* a body the JSON decoder rejects
Garbage == [garbage |-> TRUE]

BodiesOf(label) ==
    CASE label \in PushLabels     -> PushBodies
      [] label \in IssueLabels    -> IssueBodies
      [] label \in MergeLabels    -> IssueBodies
      [] label = "Pipeline Hook"  -> PipelineBodies
      [] label = "Job Hook"       -> JobBodies
      [] OTHER                    -> {[Project |-> TheProject]}

\* the labels of the switch, another GitLab label, and two near misses
Labels ==
    PushLabels \cup IssueLabels \cup MergeLabels
        \cup {"Pipeline Hook", "Job Hook", "Tag Push Hook", "push hook", "Push"}

\* header is req.Header["X-Gitlab-Event"]: no value when the header is absent
Requests ==
    {[header |-> <<l>>, body |-> b] : l \in Labels, b \in {Garbage}}
    \cup UNION {{[header |-> <<l>>, body |-> b] : b \in BodiesOf(l)} : l \in Labels}
    \cup {[header |-> <<>>, body |-> b] : b \in {Garbage, [Project |-> TheProject]}}

Handlers == {1, 2}

NoRequest == [header |-> <<>>, body |-> [none |-> TRUE]]
NoEvent == [none |-> TRUE]
NoMessage == [tpl |-> "none"]

(***************************************************************************)
(* Steps shared by the handler's cases.                                    *)
(***************************************************************************)
Goto(r, next) == pc' = [pc EXCEPT ![r] = next]

\* a run-time panic ends the handler (net/http recovers it); a return ends it too
Panic(r) == Goto(r, "panic")
Return(r) == Goto(r, "done")

\* sendMessage up to its Privmsg loop: the channel list is built from the table
sendMessage(r, m, projectName, namespace, next) ==
    /\ message' = [message EXCEPT ![r] = m]
    /\ channelNames' =
           [channelNames EXCEPT ![r] = resolve(channelMapping, projectName, namespace)]
    /\ ret' = [ret EXCEPT ![r] = next]
    /\ Goto(r, "sendMessage")

NoSend == UNCHANGED <<message, channelNames, ret>>

\* one turn of sendMessage's loop: bot.Privmsg(channelName, message)
Privmsg(r) ==
    /\ alive
    /\ pc[r] = "sendMessage"
    /\ channelNames[r] # <<>>
    /\ sink' = Append(sink, [req |-> r, channel |-> Head(channelNames[r]),
                              message |-> message[r]])
    /\ channelNames' = [channelNames EXCEPT ![r] = Tail(@)]
    /\ UNCHANGED <<channelMapping, joined, alive, req, pc, ev, idx, message, ret>>

\* the loop is over: sendMessage returns to the handler
sendMessageReturn(r) ==
    /\ alive
    /\ pc[r] = "sendMessage"
    /\ channelNames[r] = <<>>
    /\ Goto(r, ret[r])
    /\ UNCHANGED <<channelMapping, joined, alive, req, ev, idx, message, channelNames, ret, sink>>

\* the HTTP server hands a request to a fresh run of the handler
Receive(r) ==
    /\ alive
    /\ pc[r] = "idle"
    /\ \E q \in Requests : req' = [req EXCEPT ![r] = q]
    /\ Goto(r, "handler")
    /\ UNCHANGED <<channelMapping, joined, alive, ev, idx, message, channelNames, ret, sink>>

\* var eventType = req.Header["X-Gitlab-Event"][0]
ReadEventType(r) ==
    /\ alive
    /\ pc[r] = "handler"
    /\ IF req[r].header = <<>> THEN Panic(r) ELSE Goto(r, "switch")
    /\ UNCHANGED <<channelMapping, joined, alive, req, ev, idx, message, channelNames, ret, sink>>

eventType(r) == req[r].header[1]
Decodes(r) == req[r].body # Garbage

\* the default case decoding the body before it logs, as the other cases do
UnknownEventInspectsBody(r) ==
    /\ alive
    /\ pc[r] = "switch"
    /\ eventType(r) \notin
           PushLabels \cup IssueLabels \cup MergeLabels \cup {"Pipeline Hook", "Job Hook"}
    /\ IF Decodes(r)
       THEN Return(r) /\ UNCHANGED alive
       ELSE alive' = FALSE /\ Goto(r, "exit")
    /\ UNCHANGED <<channelMapping, joined, req, ev, idx, message, channelNames, ret, sink>>

\* default: log.Printf("Unknown event: %s", eventType)
UnknownEvent(r) ==
    /\ alive
    /\ pc[r] = "switch"
    /\ eventType(r) \notin
           PushLabels \cup IssueLabels \cup MergeLabels \cup {"Pipeline Hook", "Job Hook"}
    /\ Return(r)
    /\ UNCHANGED <<channelMapping, joined, alive, req, ev, idx, message, channelNames, ret, sink>>

\* log.Fatal(err): the process exits, this handler and every other with it
Fatal(r) == alive' = FALSE /\ Goto(r, "exit")

(***************************************************************************)
(* case "Pipeline Hook"                                                    *)
(***************************************************************************)
\* the commit id shortened before the status is looked at
PipelineHookShortenFirst(r) ==
    /\ alive
    /\ pc[r] = "switch"
    /\ eventType(r) = "Pipeline Hook"
    /\ LET e == req[r].body
           short == [e EXCEPT !.Commit = Slice(@, HashWidth)]
           colored == [short EXCEPT !.Status = MapGet(JobStatus, @)]
       IN  IF ~Decodes(r)
           THEN Fatal(r) /\ NoSend /\ UNCHANGED ev
           ELSE /\ UNCHANGED alive
                /\ IF ~CanSlice(e.Commit, HashWidth)
                   THEN ev' = [ev EXCEPT ![r] = e] /\ Panic(r) /\ NoSend
                   ELSE IF short.Status = "pending"
                   THEN ev' = [ev EXCEPT ![r] = short] /\ Return(r) /\ NoSend
                   ELSE IF short.Status = "running"
                   THEN /\ ev' = [ev EXCEPT ![r] = colored]
                        /\ sendMessage(r, [tpl |-> "pipelineCreate",
                                           Commit |-> colored.Commit,
                                           Status |-> colored.Status],
                                       e.Project.Name, e.Project.Namespace, "done")
                   ELSE IF short.Status = "success" \/ short.Status = "failed"
                   THEN /\ ev' = [ev EXCEPT ![r] = colored]
                        /\ sendMessage(r, [tpl |-> "pipelineComplete",
                                           Commit |-> colored.Commit,
                                           Status |-> colored.Status,
                                           Duration |-> colored.Duration],
                                       e.Project.Name, e.Project.Namespace, "done")
                   ELSE ev' = [ev EXCEPT ![r] = short] /\ Return(r) /\ NoSend
    /\ UNCHANGED <<channelMapping, joined, req, idx, sink>>

PipelineHook(r) ==
    /\ alive
    /\ pc[r] = "switch"
    /\ eventType(r) = "Pipeline Hook"
    /\ LET e == req[r].body
           short == [e EXCEPT !.Commit = Slice(@, HashWidth)]
           colored == [short EXCEPT !.Status = MapGet(JobStatus, @)]
       IN  IF ~Decodes(r)
           THEN Fatal(r) /\ NoSend /\ UNCHANGED ev
           ELSE /\ UNCHANGED alive
                /\ IF e.Status = "pending"
                   THEN ev' = [ev EXCEPT ![r] = e] /\ Return(r) /\ NoSend
                   ELSE IF ~CanSlice(e.Commit, HashWidth)
                   THEN ev' = [ev EXCEPT ![r] = e] /\ Panic(r) /\ NoSend
                   ELSE IF short.Status = "running"
                   THEN /\ ev' = [ev EXCEPT ![r] = colored]
                        /\ sendMessage(r, [tpl |-> "pipelineCreate",
                                           Commit |-> colored.Commit,
                                           Status |-> colored.Status],
                                       e.Project.Name, e.Project.Namespace, "done")
                   ELSE IF short.Status = "success" \/ short.Status = "failed"
                   THEN /\ ev' = [ev EXCEPT ![r] = colored]
                        /\ sendMessage(r, [tpl |-> "pipelineComplete",
                                           Commit |-> colored.Commit,
                                           Status |-> colored.Status,
                                           Duration |-> colored.Duration],
                                       e.Project.Name, e.Project.Namespace, "done")
                   ELSE ev' = [ev EXCEPT ![r] = short] /\ Return(r) /\ NoSend
    /\ UNCHANGED <<channelMapping, joined, req, idx, sink>>

(***************************************************************************)
(* case "Job Hook"                                                         *)
(***************************************************************************)
JobHook(r) ==
    /\ alive
    /\ pc[r] = "switch"
    /\ eventType(r) = "Job Hook"
    /\ LET e == req[r].body
           short == [e EXCEPT !.Commit = Slice(@, HashWidth)]
           afterColon == Split(e.Repository.URL, ":")
           namespace == Split(afterColon[2], "/")[1]
           colored == [short EXCEPT !.Status = MapGet(JobStatus, @)]
       IN  IF ~Decodes(r)
           THEN Fatal(r) /\ NoSend /\ UNCHANGED ev
           ELSE /\ UNCHANGED alive
                /\ IF e.Status # "success" /\ e.Status # "failed"
                   THEN ev' = [ev EXCEPT ![r] = e] /\ Return(r) /\ NoSend
                   ELSE IF ~CanSlice(e.Commit, HashWidth)
                   THEN ev' = [ev EXCEPT ![r] = e] /\ Panic(r) /\ NoSend
                   ELSE IF Len(afterColon) < 2
                   THEN ev' = [ev EXCEPT ![r] = short] /\ Panic(r) /\ NoSend
                   ELSE /\ ev' = [ev EXCEPT ![r] = colored]
                        /\ sendMessage(r, [tpl |-> "jobComplete",
                                           Name |-> colored.Name,
                                           Commit |-> colored.Commit,
                                           Status |-> colored.Status,
                                           Duration |-> colored.Duration],
                                       e.Repository.Name, namespace, "done")
    /\ UNCHANGED <<channelMapping, joined, req, idx, sink>>

(***************************************************************************)
(* case "Merge Request Hook", "Merge Request Event"                        *)
(***************************************************************************)
MergeRequestHook(r) ==
    /\ alive
    /\ pc[r] = "switch"
    /\ eventType(r) \in MergeLabels
    /\ LET e == req[r].body
           mapped == [e EXCEPT !.Action = MapGet(HookActions, @)]
       IN  IF ~Decodes(r)
           THEN Fatal(r) /\ NoSend /\ UNCHANGED ev
           ELSE /\ UNCHANGED alive
                /\ ev' = [ev EXCEPT ![r] = mapped]
                /\ sendMessage(r, [tpl |-> "merge", Action |-> mapped.Action],
                               e.Project.Name, e.Project.Namespace, "done")
    /\ UNCHANGED <<channelMapping, joined, req, idx, sink>>

(***************************************************************************)
(* case "Issue Hook", "Issue Event"                                        *)
(***************************************************************************)
\* the decode error logged and the handler going on with the zero-valued record
IssueHookIgnoreError(r) ==
    /\ alive
    /\ pc[r] = "switch"
    /\ eventType(r) \in IssueLabels
    /\ LET zero == [Project |-> [Name |-> <<>>, Namespace |-> <<>>], Action |-> ""]
           e == IF Decodes(r) THEN req[r].body ELSE zero
           mapped == [e EXCEPT !.Action = MapGet(HookActions, @)]
       IN  /\ UNCHANGED alive
           /\ ev' = [ev EXCEPT ![r] = mapped]
           /\ sendMessage(r, [tpl |-> "issue", Action |-> mapped.Action],
                          e.Project.Name, e.Project.Namespace, "done")
    /\ UNCHANGED <<channelMapping, joined, req, idx, sink>>

IssueHook(r) ==
    /\ alive
    /\ pc[r] = "switch"
    /\ eventType(r) \in IssueLabels
    /\ LET e == req[r].body
           mapped == [e EXCEPT !.Action = MapGet(HookActions, @)]
       IN  IF ~Decodes(r)
           THEN Fatal(r) /\ NoSend /\ UNCHANGED ev
           ELSE /\ UNCHANGED alive
                /\ ev' = [ev EXCEPT ![r] = mapped]
                /\ sendMessage(r, [tpl |-> "issue", Action |-> mapped.Action],
                               e.Project.Name, e.Project.Namespace, "done")
    /\ UNCHANGED <<channelMapping, joined, req, idx, sink>>

(***************************************************************************)
(* case "Push Hook", "Push Event"                                          *)
(***************************************************************************)
\* both hashes shortened right after the decode, as the pipeline case does
PushHookShortens(r) ==
    /\ alive
    /\ pc[r] = "switch"
    /\ eventType(r) \in PushLabels
    /\ LET e == req[r].body
           parts == Split(e.Branch, "/")
       IN  IF ~Decodes(r)
           THEN Return(r) /\ UNCHANGED ev
           ELSE IF Len(parts) < 3
           THEN ev' = [ev EXCEPT ![r] = e] /\ Panic(r)
           ELSE IF ~CanSlice(e.BeforeCommit, HashWidth) \/ ~CanSlice(e.AfterCommit, HashWidth)
           THEN ev' = [ev EXCEPT ![r] = e] /\ Panic(r)
           ELSE ev' = [ev EXCEPT ![r] =
                          [e EXCEPT !.Branch = parts[3],
                                    !.BeforeCommit = Slice(@, HashWidth),
                                    !.AfterCommit = Slice(@, HashWidth)]]
                /\ Goto(r, "push_branch")
    /\ NoSend
    /\ UNCHANGED <<channelMapping, joined, alive, req, idx, sink>>

\* decode, then pushEvent.Branch = strings.Split(pushEvent.Branch, "/")[2]
PushHook(r) ==
    /\ alive
    /\ pc[r] = "switch"
    /\ eventType(r) \in PushLabels
    /\ LET e == req[r].body
           parts == Split(e.Branch, "/")
       IN  IF ~Decodes(r)
           THEN Return(r) /\ UNCHANGED ev
           ELSE IF Len(parts) < 3
           THEN ev' = [ev EXCEPT ![r] = e] /\ Panic(r)
           ELSE ev' = [ev EXCEPT ![r] = [e EXCEPT !.Branch = parts[3]]]
                /\ Goto(r, "push_branch")
    /\ NoSend
    /\ UNCHANGED <<channelMapping, joined, alive, req, idx, sink>>

\* the two tests in the other order: the before hash looked at first
PushBranchCreateFirst(r) ==
    /\ alive
    /\ pc[r] = "push_branch"
    /\ LET e == ev[r]
       IN  IF e.BeforeCommit = NullCommit
           THEN sendMessage(r, [tpl |-> "branchCreate", Branch |-> e.Branch],
                            e.Project.Name, e.Project.Namespace, "push_total")
           ELSE IF e.AfterCommit = NullCommit
           THEN sendMessage(r, [tpl |-> "branchDelete", Branch |-> e.Branch],
                            e.Project.Name, e.Project.Namespace, "done")
           ELSE Goto(r, "push_total") /\ NoSend
    /\ UNCHANGED <<channelMapping, joined, alive, req, ev, idx, sink>>

\* the branch-deleted and branch-created lines
PushBranch(r) ==
    /\ alive
    /\ pc[r] = "push_branch"
    /\ LET e == ev[r]
       IN  IF e.AfterCommit = NullCommit
           THEN sendMessage(r, [tpl |-> "branchDelete", Branch |-> e.Branch],
                            e.Project.Name, e.Project.Namespace, "done")
           ELSE IF e.BeforeCommit = NullCommit
           THEN sendMessage(r, [tpl |-> "branchCreate", Branch |-> e.Branch],
                            e.Project.Name, e.Project.Namespace, "push_total")
           ELSE Goto(r, "push_total") /\ NoSend
    /\ UNCHANGED <<channelMapping, joined, alive, req, ev, idx, sink>>

\* the push summary without the test of TotalCommits
PushSummaryAlways(r) ==
    /\ alive
    /\ pc[r] = "push_total"
    /\ LET e == ev[r]
           cutBefore == [e EXCEPT !.BeforeCommit = Slice(@, HashWidth)]
           cutBoth == [cutBefore EXCEPT !.AfterCommit = Slice(@, HashWidth)]
       IN  IF e.BeforeCommit = NullCommit
           THEN /\ UNCHANGED ev
                /\ sendMessage(r, [tpl |-> "pushCommitLog",
                                   TotalCommits |-> e.TotalCommits,
                                   Branch |-> e.Branch],
                               e.Project.Name, e.Project.Namespace, "push_limit")
           ELSE IF ~CanSlice(e.BeforeCommit, HashWidth)
           THEN UNCHANGED ev /\ Panic(r) /\ NoSend
           ELSE IF ~CanSlice(e.AfterCommit, HashWidth)
           THEN ev' = [ev EXCEPT ![r] = cutBefore] /\ Panic(r) /\ NoSend
           ELSE /\ ev' = [ev EXCEPT ![r] = cutBoth]
                /\ sendMessage(r, [tpl |-> "pushCompare",
                                   TotalCommits |-> e.TotalCommits,
                                   Branch |-> e.Branch,
                                   BeforeCommit |-> cutBoth.BeforeCommit,
                                   AfterCommit |-> cutBoth.AfterCommit],
                               e.Project.Name, e.Project.Namespace, "push_limit")
    /\ UNCHANGED <<channelMapping, joined, alive, req, idx, sink>>

\* if pushEvent.TotalCommits > 0: the push summary, after shortening both hashes
PushSummary(r) ==
    /\ alive
    /\ pc[r] = "push_total"
    /\ LET e == ev[r]
           cutBefore == [e EXCEPT !.BeforeCommit = Slice(@, HashWidth)]
           cutBoth == [cutBefore EXCEPT !.AfterCommit = Slice(@, HashWidth)]
       IN  IF e.TotalCommits > 0
           THEN IF e.BeforeCommit = NullCommit
                THEN /\ UNCHANGED ev
                     /\ sendMessage(r, [tpl |-> "pushCommitLog",
                                        TotalCommits |-> e.TotalCommits,
                                        Branch |-> e.Branch],
                                    e.Project.Name, e.Project.Namespace, "push_limit")
                ELSE IF ~CanSlice(e.BeforeCommit, HashWidth)
                THEN UNCHANGED ev /\ Panic(r) /\ NoSend
                ELSE IF ~CanSlice(e.AfterCommit, HashWidth)
                THEN ev' = [ev EXCEPT ![r] = cutBefore] /\ Panic(r) /\ NoSend
                ELSE /\ ev' = [ev EXCEPT ![r] = cutBoth]
                     /\ sendMessage(r, [tpl |-> "pushCompare",
                                        TotalCommits |-> e.TotalCommits,
                                        Branch |-> e.Branch,
                                        BeforeCommit |-> cutBoth.BeforeCommit,
                                        AfterCommit |-> cutBoth.AfterCommit],
                                    e.Project.Name, e.Project.Namespace, "push_limit")
           ELSE UNCHANGED ev /\ Return(r) /\ NoSend
    /\ UNCHANGED <<channelMapping, joined, alive, req, idx, sink>>

\* the element the decoder's spare capacity holds: a zero Commit
ZeroCommit == [Id |-> <<>>, Message |-> 0]

\* if pushEvent.TotalCommits > 3: pushEvent.Commits = pushEvent.Commits[0:3].
\* With fewer than 3 commits decoded the slice expression reaches into the
\* capacity the JSON decoder left: none (a panic), or, in builds whose decoder
\* allocates 4 elements at once, zero Commits.
PushLimit(r) ==
    /\ alive
    /\ pc[r] = "push_limit"
    /\ LET e == ev[r]
       IN  IF e.TotalCommits > CommitLimit
           THEN IF Len(e.Commits) >= CommitLimit
                THEN /\ ev' = [ev EXCEPT ![r].Commits = SubSeq(@, 1, CommitLimit)]
                     /\ Goto(r, "push_loop")
                ELSE \/ UNCHANGED ev /\ Panic(r)
                     \/ /\ Len(e.Commits) > 0
                        /\ ev' = [ev EXCEPT ![r].Commits =
                                     @ \o [k \in 1..(CommitLimit - Len(@)) |-> ZeroCommit]]
                        /\ Goto(r, "push_loop")
           ELSE UNCHANGED ev /\ Goto(r, "push_loop")
    /\ idx' = [idx EXCEPT ![r] = 1]
    /\ NoSend
    /\ UNCHANGED <<channelMapping, joined, alive, req, sink>>

\* the commits walked from the last to the first
PushCommitReversed(r) ==
    /\ alive
    /\ pc[r] = "push_loop"
    /\ LET e == ev[r]
           at == Len(e.Commits) + 1 - idx[r]
       IN  IF idx[r] <= Len(e.Commits)
           THEN IF ~CanSlice(e.Commits[at].Id, HashWidth)
                THEN Panic(r) /\ NoSend /\ UNCHANGED idx
                ELSE /\ sendMessage(r, [tpl |-> "commit",
                                        ShortID |-> Slice(e.Commits[at].Id, HashWidth),
                                        Message |-> e.Commits[at].Message],
                                    e.Project.Name, e.Project.Namespace, "push_loop")
                     /\ idx' = [idx EXCEPT ![r] = @ + 1]
           ELSE Goto(r, "push_more") /\ NoSend /\ UNCHANGED idx
    /\ UNCHANGED <<channelMapping, joined, alive, req, ev, sink>>

\* the commit lines routed by the project name alone, with no namespace
PushCommitNoNamespace(r) ==
    /\ alive
    /\ pc[r] = "push_loop"
    /\ LET e == ev[r]
       IN  IF idx[r] <= Len(e.Commits)
           THEN IF ~CanSlice(e.Commits[idx[r]].Id, HashWidth)
                THEN Panic(r) /\ NoSend /\ UNCHANGED idx
                ELSE /\ sendMessage(r, [tpl |-> "commit",
                                        ShortID |-> Slice(e.Commits[idx[r]].Id, HashWidth),
                                        Message |-> e.Commits[idx[r]].Message],
                                    e.Project.Name, <<>>, "push_loop")
                     /\ idx' = [idx EXCEPT ![r] = @ + 1]
           ELSE Goto(r, "push_more") /\ NoSend /\ UNCHANGED idx
    /\ UNCHANGED <<channelMapping, joined, alive, req, ev, sink>>

\* one turn of: for _, commit := range pushEvent.Commits
\* (commitTemplate.Execute into a bytes.Buffer returns no error)
PushCommit(r) ==
    /\ alive
    /\ pc[r] = "push_loop"
    /\ LET e == ev[r]
       IN  IF idx[r] <= Len(e.Commits)
           THEN IF ~CanSlice(e.Commits[idx[r]].Id, HashWidth)
                THEN Panic(r) /\ NoSend /\ UNCHANGED idx
                ELSE /\ sendMessage(r, [tpl |-> "commit",
                                        ShortID |-> Slice(e.Commits[idx[r]].Id, HashWidth),
                                        Message |-> e.Commits[idx[r]].Message],
                                    e.Project.Name, e.Project.Namespace, "push_loop")
                     /\ idx' = [idx EXCEPT ![r] = @ + 1]
           ELSE Goto(r, "push_more") /\ NoSend /\ UNCHANGED idx
    /\ UNCHANGED <<channelMapping, joined, alive, req, ev, sink>>

\* if pushEvent.TotalCommits > 3: "and %d more commits."
PushMore(r) ==
    /\ alive
    /\ pc[r] = "push_more"
    /\ LET e == ev[r]
       IN  IF e.TotalCommits > CommitLimit
           THEN sendMessage(r, [tpl |-> "more", Count |-> e.TotalCommits - CommitLimit],
                            e.Project.Name, e.Project.Namespace, "done")
           ELSE Return(r) /\ NoSend
    /\ UNCHANGED <<channelMapping, joined, alive, req, ev, idx, sink>>

(***************************************************************************)
(* The handler serving one request.                                        *)
(***************************************************************************)
Init ==
    /\ channelMapping \in ServerMappings
    /\ alive = TRUE
    /\ req = [r \in Handlers |-> NoRequest]
    /\ pc = [r \in Handlers |-> "idle"]
    /\ ev = [r \in Handlers |-> NoEvent]
    /\ idx = [r \in Handlers |-> 0]
    /\ message = [r \in Handlers |-> NoMessage]
    /\ channelNames = [r \in Handlers |-> <<>>]
    /\ ret = [r \in Handlers |-> "idle"]
    /\ sink = <<>>
    /\ joined = <<>>

Handle(r) ==
    \/ ReadEventType(r)
    \/ UnknownEvent(r)
    \/ PipelineHook(r)
    \/ JobHook(r)
    \/ MergeRequestHook(r)
    \/ IssueHook(r)
    \/ PushHook(r)
    \/ PushBranch(r)
    \/ PushSummary(r)
    \/ PushLimit(r)
    \/ PushCommit(r)
    \/ PushMore(r)
    \/ Privmsg(r)
    \/ sendMessageReturn(r)

Next ==
    \/ Receive(1)
    \/ Handle(1)

Spec == Init /\ [][Next]_vars

(***************************************************************************)
(* sendMessage and the 001 callback on their own: every routing table a    *)
(* yaml document with the keys below can give, every project identity over *)
(* the names below.                                                        *)
(***************************************************************************)
GroupKeys == {<<"g">>, <<"*">>}
ExplicitKeys == {<<"g", "/", "p">>}
Namespaces == {<<"g">>, <<"G">>, <<"g", "g">>, <<"*">>, <<>>}
ProjectNames == {<<"p">>, <<"P">>, <<"*">>}

MapsOver(keys) == UNION {[S -> ChannelLists] : S \in SUBSET keys}

Mappings ==
    [ DefaultChannel   : {"#d"},
      GroupMappings    : MapsOver(GroupKeys),
      ExplicitMappings : MapsOver(ExplicitKeys) ]

\* a call sendMessage(message, projectName, namespace, channelMapping, bot)
CallSendMessage(r) ==
    /\ alive
    /\ pc[r] = "idle"
    /\ \E projectName \in ProjectNames, namespace \in Namespaces :
          /\ ev' = [ev EXCEPT ![r] =
                       [Project |-> [Name |-> projectName, Namespace |-> namespace]]]
          /\ sendMessage(r, [tpl |-> "text"], projectName, namespace, "done")
    /\ UNCHANGED <<channelMapping, joined, alive, req, idx, sink>>

\* the callback RegisterHandlers adds for the reply "001": a Join for each name
Callback001 ==
    /\ alive
    /\ Len(joined) < MaxWelcomes
    /\ \E allNames \in getAllChannelNames(channelMapping) :
          joined' = Append(joined, allNames)
    /\ UNCHANGED <<channelMapping, alive, req, pc, ev, idx, message, channelNames, ret, sink>>

InitRoute ==
    /\ channelMapping \in Mappings
    /\ alive = TRUE
    /\ req = [r \in Handlers |-> NoRequest]
    /\ pc = [r \in Handlers |-> "idle"]
    /\ ev = [r \in Handlers |-> NoEvent]
    /\ idx = [r \in Handlers |-> 0]
    /\ message = [r \in Handlers |-> NoMessage]
    /\ channelNames = [r \in Handlers |-> <<>>]
    /\ ret = [r \in Handlers |-> "idle"]
    /\ sink = <<>>
    /\ joined = <<>>

NextRoute ==
    \/ Callback001
    \/ CallSendMessage(1)
    \/ Privmsg(1)
    \/ sendMessageReturn(1)

SpecRoute == InitRoute /\ [][NextRoute]_vars

(***************************************************************************)
(* Two requests served at once: net/http runs the handler in a goroutine   *)
(* per request, and both goroutines call bot.Privmsg on the one            *)
(* connection.  The payloads are few, one or two of each event kind.       *)
(***************************************************************************)
ConcPushBodies ==
    [ BeforeCommit : {HashA},
      AfterCommit  : {NullCommit, HashB},
      Project      : {TheProject},
      Commits      : {CommitsOf(<<HashC, HashC>>), CommitsOf(<<HashC, ShortHash>>)},
      TotalCommits : {2},
      Branch       : {RefMain} ]

ConcRequests ==
    {[header |-> <<"Push Hook">>, body |-> b] : b \in ConcPushBodies}
    \cup {[header |-> <<"Issue Hook">>, body |-> b] :
              b \in {Garbage, [Project |-> TheProject, Action |-> "open"]}}
    \cup {[header |-> <<"Merge Request Hook">>,
           body |-> [Project |-> TheProject, Action |-> "merge"]]}
    \cup {[header |-> <<"Pipeline Hook">>,
           body |-> [Project |-> TheProject, Commit |-> HashC,
                     Status |-> "running", Duration |-> 12]]}
    \cup {[header |-> <<"Job Hook">>,
           body |-> [Name |-> "build", Status |-> "success", Duration |-> 12,
                     Commit |-> HashC,
                     Repository |-> [Name |-> <<"p">>, URL |-> UrlScp]]]}
    \cup {[header |-> <<"Tag Push Hook">>, body |-> [Project |-> TheProject]]}

\* the HTTP server hands a request to a handler while another may be running
ReceiveConc(r) ==
    /\ alive
    /\ pc[r] = "idle"
    /\ \E q \in ConcRequests : req' = [req EXCEPT ![r] = q]
    /\ Goto(r, "handler")
    /\ UNCHANGED <<channelMapping, joined, alive, ev, idx, message, channelNames, ret, sink>>

NextConc ==
    \E r \in Handlers :
        \/ ReceiveConc(r)
        \/ Handle(r)

SpecConc == Init /\ [][NextConc]_vars

(***************************************************************************)
(* What a handler has delivered.                                           *)
(***************************************************************************)
SentBy(r) == SelectSeq(sink, LAMBDA e : e.req = r)
Targets(r) == [k \in 1..Len(SentBy(r)) |-> SentBy(r)[k].channel]
LinesTo(r, c) ==
    LET s == SelectSeq(sink, LAMBDA e : e.req = r /\ e.channel = c)
    IN  [k \in 1..Len(s) |-> s[k].message]
Range(f) == {f[k] : k \in DOMAIN f}

\* the identity a sendMessage call was made with, and its explicit-mapping key
Called(r) == pc[r] \in {"sendMessage", "done"}
KeyOf(r) == full_projectName(ev[r].Project.Name, ev[r].Project.Namespace)
NamespaceOf(r) == ev[r].Project.Namespace
\* the targets served so far followed by those still to serve
TargetsInAll(r) == Targets(r) \o channelNames[r]
OnlyTheMessage(r) == \A k \in 1..Len(SentBy(r)) : SentBy(r)[k].message = message[r]

(***************************************************************************)
(* Claims about sendMessage, checked under SpecRoute.                      *)
(***************************************************************************)
\* C1: when "namespace/name" is a key of the explicit mapping, sendMessage
\* delivers the message to exactly the channels listed under that key, in list
\* order, whether or not the group mapping holds the namespace.
C1_ExplicitPrecedence ==
    \A r \in Handlers :
        (Called(r) /\ KeyOf(r) \in DOMAIN channelMapping.ExplicitMappings)
            => /\ TargetsInAll(r) = channelMapping.ExplicitMappings[KeyOf(r)]
               /\ OnlyTheMessage(r)

\* C1 witness: a finished call for a project with an explicit entry of two
\* channels whose namespace also has a different group entry.
C1_Witness ==
    /\ pc[1] = "done"
    /\ KeyOf(1) \in DOMAIN channelMapping.ExplicitMappings
    /\ NamespaceOf(1) \in DOMAIN channelMapping.GroupMappings
    /\ channelMapping.GroupMappings[NamespaceOf(1)] = <<"#a">>
    /\ Targets(1) = <<"#b", "#a">>

\* C2: when "namespace/name" is no explicit key and the namespace is a group
\* key, sendMessage delivers to exactly the group's list, in list order (so to
\* the default channel only if the list names it).
C2_GroupFallback ==
    \A r \in Handlers :
        (/\ Called(r)
         /\ KeyOf(r) \notin DOMAIN channelMapping.ExplicitMappings
         /\ NamespaceOf(r) \in DOMAIN channelMapping.GroupMappings)
            => /\ TargetsInAll(r) = channelMapping.GroupMappings[NamespaceOf(r)]
               /\ OnlyTheMessage(r)

\* C2 witness: a finished call routed by a two-channel group entry while the
\* table has an explicit entry for another project of the namespace.
C2_Witness ==
    /\ pc[1] = "done"
    /\ KeyOf(1) \notin DOMAIN channelMapping.ExplicitMappings
    /\ channelMapping.ExplicitMappings # <<>>
    /\ NamespaceOf(1) \in DOMAIN channelMapping.GroupMappings
    /\ Targets(1) = <<"#a", "#b">>

\* C3: a project that matches no explicit key and no group key exactly gets
\* exactly one delivery, to the default channel; a key that differs in case,
\* is a prefix, or is "*" selects nothing.
C3_DefaultFallback ==
    \A r \in Handlers :
        (/\ Called(r)
         /\ KeyOf(r) \notin DOMAIN channelMapping.ExplicitMappings
         /\ NamespaceOf(r) \notin DOMAIN channelMapping.GroupMappings)
            => /\ TargetsInAll(r) = <<channelMapping.DefaultChannel>>
               /\ OnlyTheMessage(r)

\* C3 witness: namespace "G" and name "P" against the keys "g", "*" and "g/p":
\* the call ends with one delivery, to the default channel.
C3_Witness ==
    /\ pc[1] = "done"
    /\ NamespaceOf(1) = <<"G">>
    /\ ev[1].Project.Name = <<"P">>
    /\ DOMAIN channelMapping.GroupMappings = GroupKeys
    /\ DOMAIN channelMapping.ExplicitMappings = ExplicitKeys
    /\ Targets(1) = <<"#d">>

\* C4: every message handed to sendMessage is delivered at least once, for
\* every project identity and every routing table the yaml file can give.
C4_ResolutionNeverEmpty ==
    \A r \in Handlers : pc[r] = "done" => Len(SentBy(r)) >= 1

(***************************************************************************)
(* Reading the lines of a push request.                                    *)
(***************************************************************************)
\* handler r got past the switch with a body the decoder accepted
Decoded(r, labels) ==
    /\ pc[r] \notin {"idle", "handler", "switch"}
    /\ req[r].header # <<>>
    /\ eventType(r) \in labels
    /\ Decodes(r)

IsPush(r) == Decoded(r, PushLabels)
Payload(r) == req[r].body

\* the handler has ended: it returned, or it panicked
Over(r) == pc[r] \in {"done", "panic"}

\* the channels the payload's project resolves to, and all channels there are
Dests(r) ==
    Range(resolve(channelMapping, Payload(r).Project.Name, Payload(r).Project.Namespace))
AllChannels == Channels \cup {"#d"}

\* the kind of a delivered line; n is the commit's position in the payload
\* for a commit line and the printed count for the "more commits" line
Shape(l) ==
    CASE l.tpl \in {"pushCompare", "pushCommitLog"} -> [kind |-> "summary", n |-> 0]
      [] l.tpl = "branchCreate" -> [kind |-> "create", n |-> 0]
      [] l.tpl = "branchDelete" -> [kind |-> "delete", n |-> 0]
      [] l.tpl = "commit"       -> [kind |-> "commit", n |-> l.Message]
      [] l.tpl = "more"         -> [kind |-> "more", n |-> l.Count]
      [] OTHER                  -> [kind |-> "other", n |-> 0]

Shapes(r, c) == [k \in 1..Len(LinesTo(r, c)) |-> Shape(LinesTo(r, c)[k])]
Count(s, kind) == Len(SelectSeq(s, LAMBDA x : x.kind = kind))

Summary == [kind |-> "summary", n |-> 0]
Create == [kind |-> "create", n |-> 0]
Delete == [kind |-> "delete", n |-> 0]
CommitLine(k) == [kind |-> "commit", n |-> k]
More(k) == [kind |-> "more", n |-> k]

RefParts(r) == Len(Split(Payload(r).Branch, "/"))

(***************************************************************************)
(* Claims about the handler, checked under Spec.                           *)
(***************************************************************************)
\* C5: a push whose before and after hashes are not the null commit and that
\* carries N > 3 commits delivers to each resolved channel exactly the summary
\* line, the lines of the first 3 commits in payload order and "and N-3 more
\* commits", whatever the hashes are.  (Stated for refs of at least three
\* components, where the branch name can be extracted.)
C5_CommitLineTruncation ==
    \A r \in Handlers :
        (/\ IsPush(r)
         /\ Over(r)
         /\ Payload(r).BeforeCommit # NullCommit
         /\ Payload(r).AfterCommit # NullCommit
         /\ Payload(r).TotalCommits > CommitLimit
         /\ Len(Payload(r).Commits) = Payload(r).TotalCommits
         /\ RefParts(r) >= 3)
            => \A c \in Dests(r) :
                   Shapes(r, c) = <<Summary, CommitLine(1), CommitLine(2), CommitLine(3),
                                    More(Payload(r).TotalCommits - CommitLimit)>>

\* the lines of a branch creation: the branch-create line, then, iff
\* total_commits_count > 0, the summary, at most 3 commit lines and the
\* "more commits" line of a push of more than 3
BranchCreateLines(r, c) ==
    LET s == Shapes(r, c)
        rest == SubSeq(s, 3, Len(s))
    IN  /\ Len(s) >= 1
        /\ s[1] = Create
        /\ Count(s, "create") = 1
        /\ IF Payload(r).TotalCommits = 0
           THEN Len(s) = 1
           ELSE /\ Len(s) >= 2
                /\ s[2] = Summary
                /\ Count(s, "summary") = 1
                /\ Count(rest, "commit") <= CommitLimit
                /\ \A k \in 1..Len(rest) : rest[k].kind \in {"commit", "more"}

IsBranchCreation(r) ==
    /\ IsPush(r)
    /\ Payload(r).BeforeCommit = NullCommit
    /\ Payload(r).AfterCommit # NullCommit

\* C6: a push whose before hash is the null commit and whose after hash is
\* not delivers the branch-create line first, then, iff total_commits_count
\* > 0, the summary line and at most 3 commit lines; with total_commits_count
\* = 0 the branch-create line is the only line.  (Stated for refs of at least
\* three components, where the branch name can be extracted.)
C6_BranchCreation ==
    \A r \in Handlers :
        (IsBranchCreation(r) /\ Over(r) /\ RefParts(r) >= 3)
            => \A c \in Dests(r) : BranchCreateLines(r, c)

C8_PendingPipelineDropped ==
    \A r \in Handlers :
        (Decoded(r, {"Pipeline Hook"}) /\ Payload(r).Status = "pending")
            => /\ pc[r] = "done"
               /\ SentBy(r) = <<>>
               /\ message[r] = NoMessage
               /\ channelNames[r] = <<>>
               /\ ev[r] = Payload(r)

\* C8 witness: a served pending pipeline event whose hash is shorter than 7.
C8_Witness ==
    /\ Decoded(1, {"Pipeline Hook"})
    /\ Payload(1).Status = "pending"
    /\ Payload(1).Commit = ShortHash
    /\ pc[1] = "done"

\* s is ordered by rank, commit lines by their position in the payload
InOrder(s, rank(_)) ==
    \A i, j \in 1..Len(s) :
        i < j => \/ rank(s[i]) < rank(s[j])
                 \/ /\ s[i].kind = "commit"
                    /\ s[j].kind = "commit"
                    /\ s[i].n < s[j].n

RankAsWritten(x) ==
    CASE x.kind = "summary" -> 1
      [] x.kind \in {"create", "delete"} -> 2
      [] x.kind = "commit" -> 3
      [] x.kind = "more" -> 4
      [] OTHER -> 0

RankDelivered(x) ==
    CASE x.kind \in {"create", "delete"} -> 1
      [] x.kind = "summary" -> 2
      [] x.kind = "commit" -> 3
      [] x.kind = "more" -> 4
      [] OTHER -> 0

\* C9 as written: the lines of one push reach a channel in the order summary,
\* branch-create/delete line, commit lines in payload order, "more commits".
C9_DeliveryOrder_AsWritten ==
    \A r \in Handlers :
        IsPush(r) => \A c \in AllChannels : InOrder(Shapes(r, c), RankAsWritten)

\* C9 amended: the lines of one push reach a channel in the order
\* branch-create/delete line (if any), summary, commit lines in payload
\* order, "more commits" line last.
C9_DeliveryOrder ==
    \A r \in Handlers :
        IsPush(r) => \A c \in AllChannels : InOrder(Shapes(r, c), RankDelivered)

\* C9 witness: a served push of two commits to a new branch: create, summary,
\* commit 1, commit 2.
C9_Witness ==
    /\ IsBranchCreation(1)
    /\ pc[1] = "done"
    /\ Shapes(1, "#a") = <<Create, Summary, CommitLine(1), CommitLine(2)>>

\* C10: handling a request never ends the process, whatever the event kind
\* and the body.
C10_NoRequestKillsTheProcess ==
    /\ alive
    /\ \A r \in Handlers : pc[r] # "exit"

(***************************************************************************)
(* Claims about failed and unrecognised requests, checked under Spec.      *)
(***************************************************************************)
\* the labels the switch has a case for
CaseLabels == PushLabels \cup IssueLabels \cup MergeLabels \cup {"Pipeline Hook", "Job Hook"}

\* handler r got past the switch with a labelled request
Dispatched(r) ==
    /\ pc[r] \notin {"idle", "handler", "switch"}
    /\ req[r].header # <<>>

DecodeFailed(r) == Dispatched(r) /\ eventType(r) \in CaseLabels /\ ~Decodes(r)

\* C11: a request with a recognised label whose body fails to decode ends the
\* handler at once: no sendMessage call (no message rendered) and no Privmsg,
\* for every recognised label.
C11_DecodeFailureDeliversNothing ==
    \A r \in Handlers :
        DecodeFailed(r)
            => /\ pc[r] \in {"done", "exit"}
               /\ SentBy(r) = <<>>
               /\ message[r] = NoMessage
               /\ channelNames[r] = <<>>

\* C11 witness: an Issue Event whose body failed to decode has ended the
\* handler with nothing sent.
C11_Witness ==
    /\ DecodeFailed(1)
    /\ eventType(1) = "Issue Event"
    /\ pc[1] = "exit"
    /\ sink = <<>>

\* C12: a request without the X-Gitlab-Event header is handled as a request
\* with an unrecognised label is: the handler returns normally (no panic) and
\* nothing is delivered.
C12_MissingHeaderDropped ==
    \A r \in Handlers :
        (/\ pc[r] \notin {"idle", "handler"}
         /\ req[r] # NoRequest
         /\ req[r].header = <<>>)
            => /\ pc[r] = "done"
               /\ SentBy(r) = <<>>

Unrecognised(r) == Dispatched(r) /\ eventType(r) \notin CaseLabels

\* C13: a request whose label is not exactly one of the switch's labels (a
\* label of another event kind, one that differs in case, a prefix) makes the
\* handler return normally with no record decoded, no sendMessage call and no
\* Privmsg, whatever the body is: the body is not read.
C13_UnknownEventDropped ==
    \A r \in Handlers :
        Unrecognised(r)
            => /\ pc[r] = "done"
               /\ ev[r] = NoEvent
               /\ SentBy(r) = <<>>
               /\ message[r] = NoMessage
               /\ channelNames[r] = <<>>

\* C13 witness: the label "push hook" with a body no decoder accepts: the
\* handler has returned.
C13_Witness ==
    /\ Unrecognised(1)
    /\ eventType(1) = "push hook"
    /\ req[1].body = Garbage
    /\ pc[1] = "done"

(***************************************************************************)
(* Claims about the 001 callback, checked under SpecRoute.                 *)
(***************************************************************************)
\* every channel a routing table names
TableChannels(m) ==
    {m.DefaultChannel}
        \cup UNION {Range(m.GroupMappings[k]) : k \in DOMAIN m.GroupMappings}
        \cup UNION {Range(m.ExplicitMappings[k]) : k \in DOMAIN m.ExplicitMappings}

\* C14: each run of the 001 callback requests Join for exactly the default
\* channel and the channels of every group list and every explicit list; so
\* the channels sendMessage resolves, for any project identity, and the
\* channels it has delivered to are among them.
C14_JoinCoversRoutingTable ==
    \A n \in 1..Len(joined) :
        /\ Range(joined[n]) = TableChannels(channelMapping)
        /\ \A projectName \in ProjectNames, namespace \in Namespaces :
               Range(resolve(channelMapping, projectName, namespace))
                   \subseteq Range(joined[n])
        /\ \A r \in Handlers : Range(Targets(r)) \subseteq Range(joined[n])

\* C14 witness: the callback has run on a table whose group and explicit
\* lists name different channels, and a message went to the explicit one.
C14_Witness ==
    /\ Len(joined) = 1
    /\ Range(joined[1]) = {"#d", "#a", "#b"}
    /\ DOMAIN channelMapping.GroupMappings = GroupKeys
    /\ pc[1] = "done"
    /\ Targets(1) = <<"#b">>
    /\ "#b" \notin Range(channelMapping.GroupMappings[<<"g">>])
    /\ "#b" \notin Range(channelMapping.GroupMappings[<<"*">>])

(***************************************************************************)
(* Claims about the normalisation of a push, checked under Spec.           *)
(***************************************************************************)
\* the components joined again with the separator between them
RECURSIVE JoinWith(_, _)
JoinWith(parts, sep) ==
    IF parts = <<>> THEN <<>>
    ELSE IF Len(parts) = 1 THEN parts[1]
    ELSE parts[1] \o <<sep>> \o JoinWith(Tail(parts), sep)

\* the components of a ref from index 2 onward, rejoined with "/"
BranchOf(ref) == JoinWith(SubSeq(Split(ref, "/"), 3, Len(Split(ref, "/"))), "/")

\* C15: for a ref of at least 3 components the branch name of the push
\* record, and of every delivered line that prints the branch, is the
\* components from index 2 onward rejoined with "/": "feature/x" for
\* "refs/heads/feature/x", "main" for "refs/heads/main".
C15_BranchExtraction ==
    \A r \in Handlers :
        (IsPush(r) /\ RefParts(r) >= 3)
            => /\ ev[r].Branch = BranchOf(Payload(r).Branch)
               /\ \A k \in 1..Len(SentBy(r)) :
                      "Branch" \in DOMAIN SentBy(r)[k].message
                          => SentBy(r)[k].message.Branch = BranchOf(Payload(r).Branch)

\* a hash cut to the display width, a shorter one left as it is
Shortened(h) == IF Len(h) <= HashWidth THEN h ELSE SubSeq(h, 1, HashWidth)

\* a push whose ref and commits array give the handler no other reason to panic
PlainPush(r) ==
    /\ IsPush(r)
    /\ RefParts(r) >= 3
    /\ (Payload(r).TotalCommits <= CommitLimit \/ Len(Payload(r).Commits) >= CommitLimit)

\* C16: shortening a hash never makes the handler panic, whatever the length
\* of the hash, in pipeline, job and push records; a delivered pipeline or job
\* line carries the hash unchanged when it is no longer than 7 characters and
\* its first 7 characters otherwise.
C16_ShorteningIsSafe ==
    \A r \in Handlers :
        /\ Decoded(r, {"Pipeline Hook"}) => pc[r] # "panic"
        /\ (Decoded(r, {"Job Hook"}) /\ Payload(r).Repository.URL = UrlScp)
               => pc[r] # "panic"
        /\ PlainPush(r) => pc[r] # "panic"
        /\ Decoded(r, {"Pipeline Hook", "Job Hook"})
               => \A k \in 1..Len(SentBy(r)) :
                      SentBy(r)[k].message.Commit = Shortened(Payload(r).Commit)

\* the commits the loop is to print: the first 3 of a push of more than 3
Printed(r) ==
    IF Payload(r).TotalCommits > CommitLimit
    THEN SubSeq(Payload(r).Commits, 1, CommitLimit)
    ELSE Payload(r).Commits

\* a push whose summary line can be produced and is followed by commit lines
SummarisedPush(r) ==
    /\ PlainPush(r)
    /\ Payload(r).TotalCommits > 0
    /\ Payload(r).AfterCommit \notin {NullCommit, ShortHash}
    /\ Payload(r).BeforeCommit # ShortHash

\* C17: when one line of a push cannot be produced, only that line is missing
\* once the handler has ended: every commit line that can be produced (the
\* commit's id is not too short to cut) and the "more commits" line of a push
\* of more than 3 have reached each resolved channel, and no line of a commit
\* that could not be cut has.
C17_RenderFailureIsPerLine ==
    \A r \in Handlers :
        (SummarisedPush(r) /\ Over(r))
            => \A c \in Dests(r) :
                   /\ \A k \in 1..Len(Printed(r)) :
                          CommitLine(k) \in Range(Shapes(r, c))
                              <=> CanSlice(Printed(r)[k].Id, HashWidth)
                   /\ Payload(r).TotalCommits > CommitLimit
                          => More(Payload(r).TotalCommits - CommitLimit)
                                 \in Range(Shapes(r, c))

(***************************************************************************)
(* Claims about issue and merge-request events, checked under Spec.        *)
(***************************************************************************)
\* C18: every line delivered for an issue or merge-request event carries the
\* verb of its action, or, for an action the verb table does not have, the
\* action as received; for such an action a line is delivered with the raw
\* action or no line is delivered, and never a line with another or no verb.
C18_UnknownActionFallback ==
    \A r \in Handlers :
        Decoded(r, IssueLabels \cup MergeLabels)
            => \A k \in 1..Len(SentBy(r)) :
                   SentBy(r)[k].message.Action =
                       IF Payload(r).Action \in DOMAIN HookActions
                       THEN HookActions[Payload(r).Action]
                       ELSE Payload(r).Action

(***************************************************************************)
(* Claims about the null commit, checked under Spec.                       *)
(***************************************************************************)
\* handler r stands before a comparison with NullCommit: the tests of the
\* after and the before hash for a deleted or created branch, and the test
\* of the before hash that picks the summary's template
ComparesNext(r) == pc[r] \in {"push_branch", "push_total"}

\* C19: wherever the push case is about to compare the before or the after
\* hash with the null commit, the record still holds both hashes as received,
\* not yet cut to 7 characters.
C19_SentinelBeforeShortening ==
    \A r \in Handlers :
        (IsPush(r) /\ ComparesNext(r))
            => /\ ev[r].BeforeCommit = Payload(r).BeforeCommit
               /\ ev[r].AfterCommit = Payload(r).AfterCommit

\* C19 witness: a push of commits between two real 40-character hashes
\* stands before the last comparison, the one right in front of the cut.
C19_Witness ==
    /\ IsPush(1)
    /\ pc[1] = "push_total"
    /\ Payload(1).TotalCommits > 0
    /\ ev[1].BeforeCommit = HashA
    /\ ev[1].AfterCommit = HashB

IsBranchDeletion(r) == IsPush(r) /\ Payload(r).AfterCommit = NullCommit

\* no channel has got both a branch-create and a branch-delete line of r
NeverCreateAndDelete(r) ==
    \A c \in AllChannels :
        Count(Shapes(r, c), "create") = 0 \/ Count(Shapes(r, c), "delete") = 0

\* C20 as written: a push whose after hash is the null commit has delivered,
\* once the handler has ended, exactly the branch-delete line to each
\* resolved channel, whatever the before hash and the commit count are; and
\* no push delivers both a branch-create and a branch-delete line.
C20_BranchDeletion_AsWritten ==
    \A r \in Handlers :
        /\ (IsBranchDeletion(r) /\ Over(r))
               => \A c \in Dests(r) : Shapes(r, c) = <<Delete>>
        /\ IsPush(r) => NeverCreateAndDelete(r)

\* C20 amended: a push whose after hash is the null commit never delivers
\* another line than one branch-delete line; when its ref has at least 3
\* components the handler returns with exactly that line delivered to each
\* resolved channel, whatever the before hash and the commit count are; and
\* no push delivers both a branch-create and a branch-delete line.
C20_BranchDeletion ==
    \A r \in Handlers :
        /\ IsBranchDeletion(r)
               => /\ \A c \in AllChannels :
                         /\ Len(Shapes(r, c)) <= 1
                         /\ Range(Shapes(r, c)) \subseteq {Delete}
                  /\ (Over(r) /\ RefParts(r) >= 3)
                         => /\ pc[r] = "done"
                            /\ \A c \in Dests(r) : Shapes(r, c) = <<Delete>>
        /\ IsPush(r) => NeverCreateAndDelete(r)

\* C20 witness: a served push whose before and after hashes are both the
\* null commit and that counts more than 3 commits: the branch-delete line
\* is all that reached the channel.
C20_Witness ==
    /\ IsBranchDeletion(1)
    /\ pc[1] = "done"
    /\ Payload(1).BeforeCommit = NullCommit
    /\ Payload(1).TotalCommits > CommitLimit
    /\ Payload(1).Commits # <<>>
    /\ Shapes(1, "#a") = <<Delete>>

(***************************************************************************)
(* Claims about requests served at once, checked under SpecConc.           *)
(***************************************************************************)
\* the project identity the case of r's event passes to sendMessage
Identity(r) ==
    IF eventType(r) = "Job Hook"
    THEN [Name |-> Payload(r).Repository.Name,
          Namespace |-> Split(Split(Payload(r).Repository.URL, ":")[2], "/")[1]]
    ELSE Payload(r).Project

\* the channel list that identity resolves to in the routing table
Resolved(r) == resolve(channelMapping, Identity(r).Name, Identity(r).Namespace)

IsPrefix(s, t) == Len(s) <= Len(t) /\ s = SubSeq(t, 1, Len(s))
IsSuffix(s, t) == Len(s) <= Len(t) /\ s = SubSeq(t, Len(t) - Len(s) + 1, Len(t))

\* C21: with two requests served at once, the lines of each request go to
\* the channels its project identity resolves to and to no other; a channel
\* later in that list has got the same lines in the same order as an earlier
\* one, less at most the line in flight; the line in flight is bound for the
\* rest of that same list; once the handler has ended every channel of the
\* list has got the same lines; and the lines of a push reach each channel
\* in the order the handler produces them.
C21_PerRequestOrder ==
    \A r \in Handlers :
        Decoded(r, CaseLabels)
            => /\ \A c \in AllChannels \ Range(Resolved(r)) : LinesTo(r, c) = <<>>
               /\ \A i, j \in 1..Len(Resolved(r)) :
                      i < j => /\ IsPrefix(LinesTo(r, Resolved(r)[j]),
                                           LinesTo(r, Resolved(r)[i]))
                               /\ Len(LinesTo(r, Resolved(r)[i]))
                                      <= Len(LinesTo(r, Resolved(r)[j])) + 1
               /\ IsSuffix(channelNames[r], Resolved(r))
               /\ Over(r) => \A c, d \in Range(Resolved(r)) : LinesTo(r, c) = LinesTo(r, d)
               /\ IsPush(r) => \A c \in AllChannels : InOrder(Shapes(r, c), RankDelivered)

\* C21 witness: two pushes of two commits have been served at once, their
\* deliveries interleaved in the sink, and each has brought its three lines
\* to both channels of the group.
C21_Witness ==
    /\ IsPush(1) /\ IsPush(2)
    /\ pc[1] = "done" /\ pc[2] = "done"
    /\ \E i, j, k, l \in 1..Len(sink) :
          /\ i < j /\ j < k /\ k < l
          /\ sink[i].req = 1 /\ sink[j].req = 2 /\ sink[k].req = 1 /\ sink[l].req = 2
    /\ \A r \in Handlers :
          /\ Shapes(r, "#a") = <<Summary, CommitLine(1), CommitLine(2)>>
          /\ Shapes(r, "#b") = <<Summary, CommitLine(1), CommitLine(2)>>

(***************************************************************************)
(* Claims about pipeline and job events, checked under Spec.               *)
(***************************************************************************)
\* C22: once the handler has ended, a decoded pipeline event has delivered to
\* each resolved channel exactly one line without the duration when its
\* status is running, exactly one line with the duration when its status is
\* success or failed, and no line for any other status.
C22_PipelineStatusFilter ==
    \A r \in Handlers :
        (Decoded(r, {"Pipeline Hook"}) /\ Over(r))
            => \A c \in Dests(r) :
                   LET lines == LinesTo(r, c)
                   IN  IF Payload(r).Status = "running"
                       THEN /\ Len(lines) = 1
                            /\ lines[1].tpl = "pipelineCreate"
                            /\ "Duration" \notin DOMAIN lines[1]
                       ELSE IF Payload(r).Status \in {"success", "failed"}
                       THEN /\ Len(lines) = 1
                            /\ lines[1].tpl = "pipelineComplete"
                            /\ lines[1].Duration = Payload(r).Duration
                       ELSE lines = <<>>

\* the text of a repository URL between its first ":" and the next "/"
HasColon(url) == Len(Split(url, ":")) >= 2
UrlNamespace(url) == Split(Split(url, ":")[2], "/")[1]

\* C23: once the handler has ended, a decoded job event whose build status
\* is success or failed has delivered exactly one job line to each channel
\* that the repository name and the namespace parsed from the repository URL
\* resolve to, and to no other; a job event of any other status has
\* delivered nothing.
C23_JobStatusFilterAndRouting ==
    \A r \in Handlers :
        (Decoded(r, {"Job Hook"}) /\ Over(r))
            => IF Payload(r).Status \in {"success", "failed"}
               THEN /\ pc[r] = "done"
                    /\ \A k \in 1..Len(SentBy(r)) : SentBy(r)[k].message.tpl = "jobComplete"
                    /\ HasColon(Payload(r).Repository.URL)
                           => Targets(r) =
                                  resolve(channelMapping, Payload(r).Repository.Name,
                                          UrlNamespace(Payload(r).Repository.URL))
               ELSE SentBy(r) = <<>>

====
